---- MODULE Spec2Model ----
(***************************************************************************)
(* Model of script_viajes.py: the trip feed -> GeoJSON pipeline.           *)
(* Text is modelled as a sequence of one-character strings, so that the    *)
(* string functions of the script (strip, lower, split, strptime, zfill)   *)
(* are computed as the script computes them.                               *)
(***************************************************************************)
EXTENDS Integers, Sequences, FiniteSets, TLC

(***************************************************************************)
(* Python values                                                           *)
(***************************************************************************)
\* Python's None (the "unresolvable" marker in the cache, geocode's miss).
None == [py |-> "None"]

\* pandas' float NaN in a cell of the data frame (an empty CSV cell).
NaN == <<"#NaN">>

\* The outcome of a call that raised instead of returning.
Raised == <<"#raise">>

\* str(v) for a cell value: NaN prints as "nan", a string is itself.
str(v) == IF v = NaN THEN <<"n", "a", "n">> ELSE v

UPPER == <<"A", "B", "C", "D", "E", "F", "G", "H", "I", "J", "K", "L", "M",
           "N", "O", "P", "Q", "R", "S", "T", "U", "V", "W", "X", "Y", "Z">>
LOWER == <<"a", "b", "c", "d", "e", "f", "g", "h", "i", "j", "k", "l", "m",
           "n", "o", "p", "q", "r", "s", "t", "u", "v", "w", "x", "y", "z">>

\* str.lower() on one character.
lower_char(c) ==
    IF \E i \in 1..26 : UPPER[i] = c
    THEN LOWER[CHOOSE i \in 1..26 : UPPER[i] = c]
    ELSE c

\* str.lower()
lower(s) == [i \in 1..Len(s) |-> lower_char(s[i])]

\* The characters str.strip() and str.split() treat as white space.
WHITESPACE == {" ", "\t"}

RECURSIVE lstrip(_)
lstrip(s) ==
    IF s # <<>> /\ Head(s) \in WHITESPACE THEN lstrip(Tail(s)) ELSE s

RECURSIVE rstrip(_)
rstrip(s) ==
    IF s # <<>> /\ s[Len(s)] \in WHITESPACE
    THEN rstrip(SubSeq(s, 1, Len(s) - 1))
    ELSE s

\* str.strip()
strip(s) == lstrip(rstrip(s))

\* str.split(sep) for a one-character separator: always at least one part.
RECURSIVE split_on(_, _)
split_on(s, sep) ==
    IF \E i \in 1..Len(s) : s[i] = sep
    THEN LET i == CHOOSE j \in 1..Len(s) :
                      s[j] = sep /\ \A k \in 1..(j - 1) : s[k] # sep
         IN  <<SubSeq(s, 1, i - 1)>> \o split_on(SubSeq(s, i + 1, Len(s)), sep)
    ELSE <<s>>

\* str.split() without argument: runs of white space separate, no empty part.
RECURSIVE split(_)
split(s) ==
    LET t == lstrip(s) IN
    IF t = <<>> THEN <<>>
    ELSE LET n == IF \E i \in 1..Len(t) : t[i] \in WHITESPACE
                  THEN (CHOOSE j \in 1..Len(t) :
                            t[j] \in WHITESPACE
                            /\ \A k \in 1..(j - 1) : t[k] \notin WHITESPACE) - 1
                  ELSE Len(t)
         IN  <<SubSeq(t, 1, n)>> \o split(SubSeq(t, n + 1, Len(t)))

\* sep.join(parts)
RECURSIVE join(_, _)
join(sep, parts) ==
    IF parts = <<>> THEN <<>>
    ELSE IF Len(parts) = 1 THEN parts[1]
    ELSE parts[1] \o sep \o join(sep, Tail(parts))

\* str.zfill(2)
zfill2(s) ==
    IF Len(s) >= 2 THEN s
    ELSE IF Len(s) = 1 THEN <<"0">> \o s
    ELSE <<"0", "0">>

DIGITS == <<"0", "1", "2", "3", "4", "5", "6", "7", "8", "9">>

is_digit(c) == \E i \in 1..10 : DIGITS[i] = c

all_digits(s) == \A i \in 1..Len(s) : is_digit(s[i])

digit_val(c) == (CHOOSE i \in 1..10 : DIGITS[i] = c) - 1

\* int(s) for a string of digits.
RECURSIVE to_int(_)
to_int(s) ==
    IF s = <<>> THEN 0
    ELSE 10 * to_int(SubSeq(s, 1, Len(s) - 1)) + digit_val(s[Len(s)])

\* "%02d" % n
fmt02(n) == <<DIGITS[((n \div 10) % 10) + 1], DIGITS[(n % 10) + 1]>>

\* "%04d" % n
fmt04(n) == <<DIGITS[((n \div 1000) % 10) + 1], DIGITS[((n \div 100) % 10) + 1]>>
            \o fmt02(n % 100)

(***************************************************************************)
(* get_text, normalize_place                                               *)
(***************************************************************************)
\* row.get(col): the cell, or None when the frame has no such column;
\* str(None) is "None".
row_get(row, col_name) ==
    IF col_name \in DOMAIN row THEN row[col_name] ELSE <<"N", "o", "n", "e">>

get_text(row, col_name) ==
    IF col_name \notin DOMAIN row THEN <<>>
    ELSE LET v == row[col_name] IN
         IF v = NaN THEN <<>>
         ELSE LET s == strip(str(v)) IN
              IF s = <<>> THEN <<>>
              ELSE IF lower(s) = <<"n", "a", "n">> THEN <<>>
              ELSE s

normalize_place(s) == join(<<" ">>, split(lower(strip(str(s)))))

(***************************************************************************)
(* Dates and times: datetime.strptime / strftime / isoformat               *)
(***************************************************************************)
\* A strptime field of one or two digits with a value in lo..hi
\* (%d, %m, %H, %M, %S all have this shape).
field_1_2(s, lo, hi) ==
    /\ Len(s) \in {1, 2}
    /\ all_digits(s)
    /\ to_int(s) >= lo
    /\ to_int(s) <= hi

is_leap(y) == (y % 4 = 0 /\ y % 100 # 0) \/ y % 400 = 0

days_in_month(y, m) ==
    IF m = 2 THEN (IF is_leap(y) THEN 29 ELSE 28)
    ELSE IF m \in {4, 6, 9, 11} THEN 30 ELSE 31

\* datetime.date(y, m, d) accepts the triple.
valid_date(y, m, d) ==
    /\ y >= 1
    /\ m \in 1..12
    /\ d >= 1
    /\ d <= days_in_month(y, m)

\* date.isoformat(): "YYYY-MM-DD" of a date <<y, m, d>>.
isoformat(f) == fmt04(f[1]) \o <<"-">> \o fmt02(f[2]) \o <<"-">> \o fmt02(f[3])

\* datetime.strptime(s, "%Y-%m-%d").date(): the date <<y, m, d>>, or Raised.
strptime_iso(s) ==
    LET parts == split_on(s, "-") IN
    IF /\ Len(parts) = 3
       /\ Len(parts[1]) = 4 /\ all_digits(parts[1])
       /\ field_1_2(parts[2], 1, 12)
       /\ field_1_2(parts[3], 1, 31)
       /\ valid_date(to_int(parts[1]), to_int(parts[2]), to_int(parts[3]))
    THEN <<to_int(parts[1]), to_int(parts[2]), to_int(parts[3])>>
    ELSE Raised

\* "18/02/2026" -> "2026-02-18"; Raised for ValueError.
parse_fecha(fecha_str) ==
    LET parts == split_on(strip(str(fecha_str)), "/") IN
    IF /\ Len(parts) = 3
       /\ field_1_2(parts[1], 1, 31)
       /\ field_1_2(parts[2], 1, 12)
       /\ Len(parts[3]) = 4 /\ all_digits(parts[3])
       /\ valid_date(to_int(parts[3]), to_int(parts[2]), to_int(parts[1]))
    THEN isoformat(<<to_int(parts[3]), to_int(parts[2]), to_int(parts[1])>>)
    ELSE Raised

\* datetime.strptime(s, "%H:%M") succeeds.
is_HM(s) ==
    LET parts == split_on(s, ":") IN
    /\ Len(parts) = 2
    /\ field_1_2(parts[1], 0, 23)
    /\ field_1_2(parts[2], 0, 59)

\* datetime.strptime(s, "%H:%M:%S") succeeds (a second of 60 or 61 passes
\* the pattern but datetime rejects it with ValueError).
is_HMS(s) ==
    LET parts == split_on(s, ":") IN
    /\ Len(parts) = 3
    /\ field_1_2(parts[1], 0, 23)
    /\ field_1_2(parts[2], 0, 59)
    /\ field_1_2(parts[3], 0, 59)

\* strptime(...).strftime("%H:%M") of a string that is_HM or is_HMS.
strftime_HM(s) ==
    LET parts == split_on(s, ":") IN
    fmt02(to_int(parts[1])) \o <<":">> \o fmt02(to_int(parts[2]))

parse_hora(h) ==
    LET s == strip(str(h))
        parts == split_on(s, ":")
    IN  IF is_HM(s) THEN strftime_HM(s)
        ELSE IF is_HMS(s) THEN strftime_HM(s)
        ELSE IF Len(parts) >= 2
             THEN zfill2(parts[1]) \o <<":">> \o zfill2(parts[2])
             ELSE s

\* A datetime.time as seconds since midnight.
time_of(h, m, sec) == h * 3600 + m * 60 + sec

lt_date(a, b) ==
    \/ a[1] < b[1]
    \/ a[1] = b[1] /\ a[2] < b[2]
    \/ a[1] = b[1] /\ a[2] = b[2] /\ a[3] < b[3]

\* A validity check without the "fecha < hoy" branch: a past date goes
\* through the departure-time test that is meant for today.
viaje_vigente_sin_pasado(fecha_iso, hora_salida_hhmm, ahora) ==
    LET hoy == ahora.date
        fecha == strptime_iso(fecha_iso)
    IN  IF lt_date(hoy, fecha) THEN TRUE
        ELSE IF hora_salida_hhmm # <<>>
             THEN IF is_HM(hora_salida_hhmm)
                  THEN LET p == split_on(hora_salida_hhmm, ":")
                           hs == time_of(to_int(p[1]), to_int(p[2]), 0)
                       IN  hs >= ahora.time
                  ELSE TRUE
             ELSE TRUE

\* viaje_vigente with the clock reading ahora = [date |-> <<y, m, d>>,
\* time |-> seconds since midnight] of datetime.now(TZ).
viaje_vigente(fecha_iso, hora_salida_hhmm, ahora) ==
    LET hoy == ahora.date
        fecha == strptime_iso(fecha_iso)
    IN  IF lt_date(hoy, fecha) THEN TRUE
        ELSE IF lt_date(fecha, hoy) THEN FALSE
        ELSE IF hora_salida_hhmm # <<>>
             THEN IF is_HM(hora_salida_hhmm)
                  THEN LET p == split_on(hora_salida_hhmm, ":")
                           hs == time_of(to_int(p[1]), to_int(p[2]), 0)
                       IN  hs >= ahora.time
                  ELSE TRUE
             ELSE TRUE

(***************************************************************************)
(* Bounds and inputs                                                       *)
(***************************************************************************)
\* Rows in the feed of one run, and runs of the script in a row.
MaxRows == 2
MaxRuns == 2

FECHA_COL == "Fecha viaje"
SALIDA_COL == "Salida"
LLEGADA_COL == "Llegada"
ORIGEN_COL == "Origen"
DESTINO_COL == "Destino"
PARADA1_COL == "Parada1"
PARADA2_COL == "Parada2"
VIAJE_ID_COL == "viaje_id"

\* Readings of datetime.now(TZ): 18 February 2026, 10:30:20.
Hoy == <<2026, 2, 18>>
Ahoras == {[date |-> Hoy, time |-> time_of(10, 30, 20)]}

\* Cell contents of the feed.
DestinoCells == {NaN, <<" ">>, <<" ", "A">>}
OrigenCells == {<<"N", "a", "N">>, <<"a">>, <<"B", " ">>}
ViajeIdCells == {NaN, <<" ", "\t">>, <<"T", "1">>}
AYER == <<"1", "7", "/", "0", "2", "/", "2", "0", "2", "6">>
HOY == <<"1", "8", "/", "0", "2", "/", "2", "0", "2", "6">>
FUTURO == <<"0", "1", "/", "0", "3", "/", "2", "0", "2", "6">>
ANTIGUO == <<"2", "8", "/", "1", "2", "/", "2", "0", "2", "5">>
MALFORMED == <<"2", "0", "2", "6", "-", "0", "2", "-", "1", "8">>
FechaCells == {AYER, HOY, FUTURO, ANTIGUO, MALFORMED, NaN}
SalidaCells == {<<"9", ":", "5">>,
                <<"1", "0", ":", "3", "0">>,
                <<"1", "0", ":", "3", "0", ":", "4", "5">>,
                <<"1", "0", ":", "3", "1", ":", "0", "0">>,
                <<"1", "1", ":", "0", "0">>,
                <<"9", "h", "2", "0">>,
                <<"2", "5", ":", "0", "0">>,
                <<"9", ":", "5", ":", "6", "0">>,
                NaN}
LlegadaCells == {<<"1", "2", ":", "0", "0">>, <<"7", ":", "6", "1">>, NaN}

COLUMNS == {FECHA_COL, SALIDA_COL, LLEGADA_COL, ORIGEN_COL, DESTINO_COL,
            PARADA1_COL, PARADA2_COL, VIAJE_ID_COL}

\* The column sets of the feeds whose runs are followed from start to end:
\* the sheet with every column, and a sheet without the trip-id column.
Frames == {COLUMNS, COLUMNS \ {VIAJE_ID_COL}}

mk_row(fecha, salida, llegada, origen, destino, p1, p2, viaje_id) ==
    [c \in COLUMNS |->
        CASE c = FECHA_COL -> fecha
          [] c = SALIDA_COL -> salida
          [] c = LLEGADA_COL -> llegada
          [] c = ORIGEN_COL -> origen
          [] c = DESTINO_COL -> destino
          [] c = PARADA1_COL -> p1
          [] c = PARADA2_COL -> p2
          [] c = VIAJE_ID_COL -> viaje_id]

\* The rows the feed of a run can deliver: a row without destination, one
\* without trip id, one without trip id and with a malformed date, an
\* expired one, and trips of two and of four stops.
Rows ==
    LET llegada == <<"1", "2", ":", "0", "0">>
        salida == <<"9", ":", "5">>
        id == <<"T", "1">>
    IN  { mk_row(FUTURO, salida, llegada, <<"a">>, NaN, NaN, NaN, id),
          mk_row(FUTURO, salida, llegada, <<"a">>, <<" ", "A">>, NaN, NaN, NaN),
          mk_row(MALFORMED, salida, llegada, <<"a">>, <<" ", "A">>, NaN, NaN,
                 NaN),
          mk_row(AYER, salida, llegada, <<"a">>, <<" ", "A">>, NaN, NaN, id),
          mk_row(FUTURO, salida, llegada, <<"a">>, <<" ", "A">>, NaN, NaN, id),
          mk_row(HOY, <<"1", "1", ":", "0", "0">>, llegada, <<"B", " ">>,
                 <<" ", "A">>, <<"b", " ", " ", "C">>, <<"b", " ", "c">>,
                 id) }

\* The rows of the iteration that is examined on its own: every
\* combination of the fields the validity checks read.
BodyRows ==
    { mk_row(t[1], t[2], t[3], t[4], t[5], NaN, NaN, t[6]) :
        t \in FechaCells \X SalidaCells \X LlegadaCells \X OrigenCells
              \X DestinoCells \X ViajeIdCells }

\* Cells of the two columns of intermediate stops: empty, white space,
\* the text "NaN", and place names.
ParadaCells == {NaN, <<" ">>, <<"N", "a", "n">>, <<" ", "b", " ", "c">>,
                <<"C">>}

\* Rows of a trip that passes every check, with every combination of the
\* two intermediate stops.
StopRows ==
    { mk_row(FUTURO, <<"9", ":", "5">>, <<"1", "2", ":", "0", "0">>,
             <<"B", " ">>, <<" ", "A">>, t[1], t[2], <<"T", "1">>) :
        t \in ParadaCells \X ParadaCells }

\* No row is being processed.
NoRow == [c \in {} |-> NaN]

\* The first candidate the geocoding provider has for a query, with lat and
\* lon as float() converts them: the provider knows one place per name.
nominatim_item(q) ==
    LET key == normalize_place(q) IN
    [lat |-> CHOOSE i \in 1..26 : LOWER[i] = key[1],
     lon |-> 10 + Len(key),
     display_name |-> key]

\* What a request to the geocoding provider can come to.
NominatimOutcomes ==
    {"found", "empty", "network_error", "http_error", "bad_json", "bad_item"}

\* What a request to the routing provider can come to.
OsrmOutcomes == {"route", "no_routes", "falsy_geometry", "network_error",
                 "http_error", "bad_json", "bad_shape"}

(***************************************************************************)
(* State                                                                   *)
(***************************************************************************)
VARIABLES
    pc,             \* where main() is: "load_cache", "read_csv", "for",
                    \* "body", "geocode", "build_feature", "write_geojson",
                    \* "save_cache", "log_generado", "git", "log_publicado",
                    \* "done", "crashed"
    run,            \* number of the current run of the script
    cache_file,     \* CACHE_PATH on disk
    out_geojson,    \* OUT_GEOJSON on disk
    cache,          \* main's cache dict
    df_columns,     \* columns of the data frame df
    pending,        \* rows df.iterrows() has still to yield
    row,            \* the row of the current iteration
    ahora,          \* the last reading of datetime.now(TZ)
    features,       \* main's features list
    descartados,    \* main's rejection counter
    viaje_id, fecha_iso, hora_salida, hora_llegada,
    stops_txt, stops_geo,  \* locals of the current iteration
    nominatim_q,    \* the q parameter of the request the last step sent to
                    \* NOMINATIM_URL (NoText: it sent none)
    nominatim_resp, \* what that request came to ("": no request)
    slept,          \* the last step ran time.sleep(NOMINATIM_SLEEP_SEC)
    osrm_coords,    \* the coordinates of the request the last step sent to
                    \* OSRM_URL (empty: it sent none)
    osrm_resp,      \* what that request came to ("": no request)
    log_last,       \* the line the last step appended to LOG_PATH
    git_cmds,       \* the git commands the last step ran, with their results
    exc             \* the exception that ended the process ("": none)

files == <<cache_file, out_geojson>>
locals == <<viaje_id, fecha_iso, hora_salida, hora_llegada, stops_txt, stops_geo>>
vars == <<pc, run, cache_file, out_geojson, cache, df_columns, pending, row,
          ahora, features, descartados, viaje_id, fecha_iso, hora_salida,
          hora_llegada, stops_txt, stops_geo, nominatim_q, nominatim_resp,
          slept, osrm_coords, osrm_resp, log_last, git_cmds, exc>>

\* A path that does not exist, and a file cut short by an interrupted write.
Absent == [kind |-> "absent"]
Truncated == [kind |-> "truncated"]

EmptyDict == [k \in {} |-> None]

(***************************************************************************)
(* The cache file: json.dumps / json.loads                                 *)
(***************************************************************************)
\* json.dumps(cache): one member per key; None is written as null, a
\* point as an object of its three members.
json_dumps(d) ==
    [kind |-> "json",
     members |-> { <<k, IF d[k] = None
                        THEN [json |-> "null"]
                        ELSE [json |-> "object", lat |-> d[k].lat,
                              lon |-> d[k].lon,
                              display_name |-> d[k].display_name]>> :
                   k \in DOMAIN d }]

\* json.loads(text) of a complete document.
json_loads(text) ==
    [k \in {m[1] : m \in text.members} |->
        LET v == (CHOOSE m \in text.members : m[1] = k)[2] IN
        IF v.json = "null" THEN None
        ELSE [lat |-> v.lat, lon |-> v.lon, display_name |-> v.display_name]]

\* load_cache() raises json.JSONDecodeError: the file exists and is not a
\* complete JSON document.
load_cache_raises(file) == file.kind \notin {"absent", "json"}

\* load_cache() when it returns.
load_cache(file) ==
    IF file.kind = "absent" THEN EmptyDict ELSE json_loads(file)

\* save_cache(cache): CACHE_PATH after write_text has returned.
save_cache(d) == json_dumps(d)

(***************************************************************************)
(* geocode                                                                 *)
(***************************************************************************)
\* A lookup that takes the unresolvable marker for a miss ("if cache.get(key)").
cache_hit_resolved(key, c) == key \in DOMAIN c /\ c[key] # None

\* "if key in cache"
cache_hit(key, c) == key \in DOMAIN c

\* geocode that keeps only its newest answer: "cache.clear()" before each
\* "cache[key] = ...".
geocode_fresh_dict(place, c, resp) ==
    LET key == normalize_place(place)
        same == [ret |-> None, cache |-> c, requested |-> FALSE,
                 slept |-> FALSE, raised |-> FALSE]
    IN  IF key = <<>> THEN same
        ELSE IF cache_hit(key, c) THEN [same EXCEPT !.ret = c[key]]
        ELSE IF resp \in {"network_error", "http_error", "bad_json"}
             THEN [same EXCEPT !.requested = TRUE, !.raised = TRUE]
        ELSE IF resp = "empty"
             THEN [same EXCEPT !.requested = TRUE, !.slept = TRUE,
                               !.cache = [k \in {key} |-> None]]
        ELSE IF resp = "bad_item"
             THEN [same EXCEPT !.requested = TRUE, !.slept = TRUE,
                               !.raised = TRUE]
        ELSE [same EXCEPT !.requested = TRUE, !.slept = TRUE,
                          !.ret = nominatim_item(place),
                          !.cache = [k \in {key} |-> nominatim_item(place)]]

\* geocode without the "if not key: return None" test: a blank place goes to
\* the provider, which has no candidate for it, and the miss is cached.
geocode_unchecked_key(place, c, resp) ==
    LET key == normalize_place(place)
        same == [ret |-> None, cache |-> c, requested |-> FALSE,
                 slept |-> FALSE, raised |-> FALSE]
    IN  IF cache_hit(key, c) THEN [same EXCEPT !.ret = c[key]]
        ELSE IF resp \in {"network_error", "http_error", "bad_json"}
             THEN [same EXCEPT !.requested = TRUE, !.raised = TRUE]
        ELSE IF resp = "empty" \/ key = <<>>
             THEN [same EXCEPT !.requested = TRUE, !.slept = TRUE,
                               !.cache = [k \in DOMAIN c \cup {key} |->
                                            IF k = key THEN None ELSE c[k]]]
        ELSE IF resp = "bad_item"
             THEN [same EXCEPT !.requested = TRUE, !.slept = TRUE,
                               !.raised = TRUE]
        ELSE [same EXCEPT !.requested = TRUE, !.slept = TRUE,
                          !.ret = nominatim_item(place),
                          !.cache = [k \in DOMAIN c \cup {key} |->
                                       IF k = key THEN nominatim_item(place)
                                       ELSE c[k]]]

\* geocode(place, cache) when the provider, if asked, answers with resp.
\* ret is the value returned, cache the dict afterwards; requested, slept
\* and raised tell whether the request was sent, whether time.sleep ran and
\* whether an exception left the function.
geocode(place, c, resp) ==
    LET key == normalize_place(place)
        same == [ret |-> None, cache |-> c, requested |-> FALSE,
                 slept |-> FALSE, raised |-> FALSE]
    IN  IF key = <<>> THEN same
        ELSE IF cache_hit(key, c) THEN [same EXCEPT !.ret = c[key]]
        ELSE IF resp \in {"network_error", "http_error", "bad_json"}
             THEN [same EXCEPT !.requested = TRUE, !.raised = TRUE]
        ELSE IF resp = "empty"
             THEN [same EXCEPT !.requested = TRUE, !.slept = TRUE,
                               !.cache = [k \in DOMAIN c \cup {key} |->
                                            IF k = key THEN None ELSE c[k]]]
        ELSE IF resp = "bad_item"
             THEN [same EXCEPT !.requested = TRUE, !.slept = TRUE,
                               !.raised = TRUE]
        ELSE [same EXCEPT !.requested = TRUE, !.slept = TRUE,
                          !.ret = nominatim_item(place),
                          !.cache = [k \in DOMAIN c \cup {key} |->
                                       IF k = key THEN nominatim_item(place)
                                       ELSE c[k]]]

\* The exception that leaves geocode(): requests.get raises on a network
\* error, raise_for_status() on an HTTP error status, r.json() on a body that
\* is not JSON, item["lat"] on a candidate without coordinates.
geocode_exception(resp) ==
    CASE resp = "network_error" -> "RequestException"
      [] resp = "http_error" -> "HTTPError"
      [] resp = "bad_json" -> "JSONDecodeError"
      [] OTHER -> "KeyError"

(***************************************************************************)
(* obtener_ruta_osrm_multi, build_feature_route                            *)
(***************************************************************************)
\* A request for the round trip: the first stop once more at the end.
osrm_request_round_trip(geo) ==
    [i \in 1..(Len(geo) + 1) |->
        IF i <= Len(geo) THEN <<geo[i].lon, geo[i].lat>>
        ELSE <<geo[1].lon, geo[1].lat>>]

\* The "lon,lat" pairs of the request, in the order of stops_geo.
osrm_request(geo) == [i \in 1..Len(geo) |-> <<geo[i].lon, geo[i].lat>>]

\* The geometry of the provider's first route: a path from the first to
\* the last stop that leaves the straight line.
osrm_geometry(geo) ==
    [type |-> "LineString",
     coordinates |-> <<<<geo[1].lon, geo[1].lat>>, <<0, 0>>,
                       <<geo[Len(geo)].lon, geo[Len(geo)].lat>>>>]

\* The JSON object {} (a route whose geometry is empty).
EmptyObject == [py |-> "{}"]

\* obtener_ruta_osrm_multi(stops_geo) under the provider's outcome: the
\* geometry, None, or an exception.
obtener_ruta_osrm_multi(geo, outcome) ==
    IF outcome \in {"network_error", "http_error", "bad_json", "bad_shape"}
    THEN [raised |-> TRUE, ruta |-> None]
    ELSE IF outcome = "route"
         THEN [raised |-> FALSE, ruta |-> osrm_geometry(geo)]
    ELSE IF outcome = "falsy_geometry"
         THEN [raised |-> FALSE, ruta |-> EmptyObject]
    ELSE [raised |-> FALSE, ruta |-> None]

\* Python's truth value of what obtener_ruta_osrm_multi returned.
truthy(ruta) == ruta \notin {None, EmptyObject}

\* The straight line with the pairs as [lat, lon].
fallback_geometry_latlon(geo) ==
    [type |-> "LineString",
     coordinates |-> [i \in 1..Len(geo) |-> <<geo[i].lat, geo[i].lon>>]]

\* The straight line through the stops.
fallback_geometry(geo) ==
    [type |-> "LineString",
     coordinates |-> [i \in 1..Len(geo) |-> <<geo[i].lon, geo[i].lat>>]]

ARROW == <<" ", "->", " ">>

build_feature_route(id, fecha, salida, llegada, txt, geo, outcome) ==
    LET r == obtener_ruta_osrm_multi(geo, outcome)
        ruta == IF r.raised THEN None ELSE r.ruta
        geometry == IF truthy(ruta) THEN ruta ELSE fallback_geometry(geo)
        origen_txt == txt[1]
        destino_txt == txt[Len(txt)]
        paradas_txt == SubSeq(txt, 2, Len(txt) - 1)
    IN  [type |-> "Feature",
         geometry |-> geometry,
         properties |->
            [name |-> origen_txt \o ARROW \o destino_txt \o <<" ", "(">>
                      \o salida \o <<"-">> \o llegada \o <<")">>,
             viaje_id |-> id,
             fecha |-> fecha,
             hora_salida |-> salida,
             hora_llegada |-> llegada,
             origen |-> origen_txt,
             destino |-> destino_txt,
             paradas |-> join(<<" ", "|", " ">>, paradas_txt),
             num_paradas |-> Len(paradas_txt)]]

(***************************************************************************)
(* main                                                                    *)
(***************************************************************************)
NoLog == [msg |-> ""]
NoText == <<>>

\* The step sends no request.
no_request ==
    /\ nominatim_q' = NoText
    /\ nominatim_resp' = ""
    /\ slept' = FALSE
    /\ osrm_coords' = <<>>
    /\ osrm_resp' = ""

\* The step runs no git command.
no_git == git_cmds' = <<>>

\* The step sends no request, runs no git command and logs nothing.
quiet ==
    /\ no_request
    /\ no_git
    /\ log_last' = NoLog

Init ==
    /\ pc = "load_cache"
    /\ run = 1
    /\ cache_file = Absent
    /\ out_geojson = Absent
    /\ cache = EmptyDict
    /\ df_columns = {}
    /\ pending = 0
    /\ row = NoRow
    /\ ahora \in Ahoras
    /\ features = <<>>
    /\ descartados = 0
    /\ viaje_id = NoText
    /\ fecha_iso = NoText
    /\ hora_salida = NoText
    /\ hora_llegada = NoText
    /\ stops_txt = <<>>
    /\ stops_geo = <<>>
    /\ nominatim_q = NoText
    /\ nominatim_resp = ""
    /\ slept = FALSE
    /\ osrm_coords = <<>>
    /\ osrm_resp = ""
    /\ log_last = NoLog
    /\ git_cmds = <<>>
    /\ exc = ""

\* The process ends on the uncaught exception e: what main() held in
\* memory is gone, the files stay as they are.
exit_crashed(e) ==
    /\ pc' = "crashed"
    /\ exc' = e
    /\ cache' = EmptyDict
    /\ df_columns' = {}
    /\ pending' = 0
    /\ row' = NoRow
    /\ features' = <<>>
    /\ descartados' = 0
    /\ viaje_id' = NoText
    /\ fecha_iso' = NoText
    /\ hora_salida' = NoText
    /\ hora_llegada' = NoText
    /\ stops_txt' = <<>>
    /\ stops_geo' = <<>>
    /\ UNCHANGED <<run, ahora>>

\* An exit path that removes the output file and the cache file ("clean up
\* on error").
crash_cleaning(e) ==
    /\ exit_crashed(e)
    /\ quiet
    /\ cache_file' = Absent
    /\ out_geojson' = Absent

crash(e) ==
    /\ exit_crashed(e)
    /\ quiet
    /\ UNCHANGED files

\* A load wrapped in "try ... except ValueError: return {}": an unreadable
\* cache file counts as a missing one.
main_load_cache_tolerant ==
    /\ pc = "load_cache"
    /\ cache' = IF cache_file.kind = "json"
                THEN json_loads(cache_file) ELSE EmptyDict
    /\ pc' = "read_csv"
    /\ quiet
    /\ UNCHANGED <<run, exc, files, df_columns, pending, row, ahora,
                   features, descartados, locals>>

\* cache = load_cache()
main_load_cache ==
    /\ pc = "load_cache"
    /\ IF load_cache_raises(cache_file)
       THEN crash("JSONDecodeError")
       ELSE /\ cache' = load_cache(cache_file)
            /\ pc' = "read_csv"
            /\ quiet
            /\ UNCHANGED <<run, exc, files, df_columns, pending, row, ahora,
                           features, descartados, locals>>

\* df = pd.read_csv(CSV_PATH, ...); features = []; descartados = 0
main_read_csv ==
    /\ pc = "read_csv"
    /\ \/ crash("URLError")
       \/ \E cols \in Frames, n \in 0..MaxRows :
            /\ df_columns' = cols
            /\ pending' = n
            /\ features' = <<>>
            /\ descartados' = 0
            /\ pc' = "for"
            /\ quiet
            /\ UNCHANGED <<run, exc, files, cache, row, ahora, locals>>

\* for _, row in df.iterrows(): the next row, or the end of the loop.
main_for ==
    /\ pc = "for"
    /\ IF pending = 0
       THEN /\ pc' = "write_geojson"
            /\ UNCHANGED <<pending, row, ahora>>
       ELSE /\ \E r \in Rows : row' = [c \in df_columns |-> r[c]]
            /\ ahora' = ahora
            /\ pending' = pending - 1
            /\ pc' = "body"
    /\ quiet
    /\ UNCHANGED <<run, exc, files, cache, df_columns, features, descartados,
                   locals>>

\* continue, or the end of the body: back to the head of the loop, where
\* the locals of the iteration are dead.
end_iteration ==
    /\ pc' = "for"
    /\ row' = NoRow
    /\ viaje_id' = NoText
    /\ fecha_iso' = NoText
    /\ hora_salida' = NoText
    /\ hora_llegada' = NoText
    /\ stops_txt' = <<>>
    /\ stops_geo' = <<>>

\* A rejection that counts the row twice.
descartar_twice(line) ==
    /\ descartados' = descartados + 2
    /\ log_last' = line
    /\ no_request
    /\ no_git
    /\ end_iteration
    /\ UNCHANGED <<run, exc, files, cache, df_columns, pending, ahora,
                   features>>

\* descartados += 1; log(...); continue, in the checks before geocoding.
descartar(line) ==
    /\ descartados' = descartados + 1
    /\ log_last' = line
    /\ no_request
    /\ no_git
    /\ end_iteration
    /\ UNCHANGED <<run, exc, files, cache, df_columns, pending, ahora,
                   features>>

\* The stop list with the second intermediate stop before the first.
build_stops_swapped(origen, p1, p2, destino) ==
    LET l == <<origen>> \o (IF p2 # <<>> THEN <<p2>> ELSE <<>>)
                        \o (IF p1 # <<>> THEN <<p1>> ELSE <<>>)
                        \o <<destino>>
    IN  SelectSeq(l, LAMBDA x : /\ x # <<>>
                                /\ strip(x) # <<>>
                                /\ lower(strip(x)) # <<"n", "a", "n">>)

\* stops_txt = [origen, p1?, p2?, destino] and the filter over it.
build_stops(origen, p1, p2, destino) ==
    LET l == <<origen>> \o (IF p1 # <<>> THEN <<p1>> ELSE <<>>)
                        \o (IF p2 # <<>> THEN <<p2>> ELSE <<>>)
                        \o <<destino>>
    IN  SelectSeq(l, LAMBDA x : /\ x # <<>>
                                /\ strip(x) # <<>>
                                /\ lower(strip(x)) # <<"n", "a", "n">>)

\* The body of the loop up to the geocoding of the stops. The second test of
\* viaje_id (lines 295-299) logs the text of the first; its line of the
\* source goes with the record to tell the two apart.
main_body ==
    /\ pc = "body"
    /\ LET destino == get_text(row, DESTINO_COL)
           origen == get_text(row, ORIGEN_COL)
           p1 == get_text(row, PARADA1_COL)
           p2 == get_text(row, PARADA2_COL)
           fecha == parse_fecha(row_get(row, FECHA_COL))
           salida == parse_hora(row_get(row, SALIDA_COL))
           llegada == parse_hora(row_get(row, LLEGADA_COL))
           id == get_text(row, VIAJE_ID_COL)
       IN  IF destino = <<>>
           THEN descartar([msg |-> "Descartado (sin destino)"])
           ELSE IF origen = <<>>
           THEN descartar([msg |-> "Descartado (sin origen)",
                           destino |-> destino])
           ELSE IF fecha = Raised
           THEN crash("ValueError")
           ELSE IF id = <<>>
           THEN descartar([msg |-> "Descartado (sin viaje_id)"])
           ELSE IF ~viaje_vigente(fecha, salida, ahora)
           THEN descartar([msg |-> "Descartado (caducado)", viaje_id |-> id,
                           fecha |-> fecha, salida |-> salida])
           ELSE IF get_text(row, VIAJE_ID_COL) = <<>>
           THEN descartar([msg |-> "Descartado (sin viaje_id)", line |-> 298])
           ELSE /\ viaje_id' = id
                /\ fecha_iso' = fecha
                /\ hora_salida' = salida
                /\ hora_llegada' = llegada
                /\ stops_txt' = build_stops(origen, p1, p2, destino)
                /\ stops_geo' = <<>>
                /\ pc' = "geocode"
                /\ quiet
                /\ UNCHANGED <<run, exc, files, cache, df_columns, pending, row,
                               ahora, features, descartados>>

\* A test that never sees the miss.
g_is_None_never(g) == FALSE

\* "if g is None"
g_is_None(g) == g = None

\* One pass of "for s in stops_txt": g = geocode(s, cache), then either the
\* break with "if not geocode_ok: descartados += 1; continue", or
\* stops_geo.append(g).
main_geocode ==
    /\ pc = "geocode"
    /\ Len(stops_geo) < Len(stops_txt)
    /\ \E resp \in NominatimOutcomes :
         LET s == stops_txt[Len(stops_geo) + 1]
             g == geocode(s, cache, resp)
         IN  /\ nominatim_q' = IF g.requested THEN s ELSE NoText
             /\ nominatim_resp' = IF g.requested THEN resp ELSE ""
             /\ slept' = g.slept
             /\ osrm_coords' = <<>>
             /\ osrm_resp' = ""
             /\ IF g.raised
                THEN /\ exit_crashed(geocode_exception(resp))
                     /\ log_last' = NoLog
                ELSE IF g_is_None(g.ret)
                THEN /\ descartados' = descartados + 1
                     /\ log_last' = [msg |-> "Descartado (no geocodifica stop)",
                                     viaje_id |-> viaje_id, stop |-> s,
                                     stops |-> stops_txt]
                     /\ cache' = g.cache
                     /\ end_iteration
                     /\ UNCHANGED <<run, exc, df_columns, pending, ahora,
                                    features>>
                ELSE /\ stops_geo' = Append(stops_geo, g.ret)
                     /\ pc' = IF Len(stops_geo) + 1 = Len(stops_txt)
                              THEN "build_feature" ELSE "geocode"
                     /\ log_last' = NoLog
                     /\ cache' = g.cache
                     /\ UNCHANGED <<run, exc, df_columns, pending, ahora, row,
                                    features, descartados, viaje_id,
                                    fecha_iso, hora_salida, hora_llegada,
                                    stops_txt>>
    /\ no_git
    /\ UNCHANGED files

\* features.append(build_feature_route(...))
main_build_feature ==
    /\ pc = "build_feature"
    /\ \E outcome \in OsrmOutcomes :
         /\ features' = Append(features,
                build_feature_route(viaje_id, fecha_iso, hora_salida,
                                    hora_llegada, stops_txt, stops_geo,
                                    outcome))
         /\ log_last' =
                IF obtener_ruta_osrm_multi(stops_geo, outcome).raised
                THEN [msg |-> "OSRM fallo; uso polilinea por puntos.",
                      viaje_id |-> viaje_id]
                ELSE NoLog
         /\ osrm_resp' = outcome
    /\ nominatim_q' = NoText
    /\ nominatim_resp' = ""
    /\ slept' = FALSE
    /\ osrm_coords' = osrm_request(stops_geo)
    /\ no_git
    /\ end_iteration
    /\ UNCHANGED <<run, exc, files, cache, df_columns, pending, ahora,
                   descartados>>

\* OUT_GEOJSON.write_text(json.dumps(fc, ...)): the file is complete, or
\* the process dies after the file was opened for writing.
main_write_geojson ==
    /\ pc = "write_geojson"
    /\ \/ /\ out_geojson' = [kind |-> "json", features |-> features]
          /\ pc' = "save_cache"
          /\ UNCHANGED <<run, exc, cache, df_columns, pending, row, ahora,
                         features, descartados, locals>>
       \/ /\ out_geojson' = Truncated
          /\ exit_crashed("killed")
    /\ quiet
    /\ UNCHANGED cache_file

\* save_cache(cache): write_text opens CACHE_PATH for writing, which empties
\* it, and then writes the document; the file is complete once it returns.
main_save_cache ==
    /\ pc = "save_cache"
    /\ cache_file' = save_cache(cache)
    /\ pc' = "log_generado"
    /\ quiet
    /\ UNCHANGED <<run, exc, out_geojson, cache, df_columns, pending, row,
                   ahora, features, descartados, locals>>

\* The process dies inside save_cache, between the opening of the file and
\* the end of the write.
save_cache_interrupted ==
    /\ pc = "save_cache"
    /\ cache_file' = Truncated
    /\ exit_crashed("killed")
    /\ quiet
    /\ UNCHANGED out_geojson

\* log(f"Generado ...: features={len(features)} descartados={descartados}")
main_log_generado ==
    /\ pc = "log_generado"
    /\ log_last' = [msg |-> "Generado", features |-> Len(features),
                    descartados |-> descartados]
    /\ no_request
    /\ no_git
    /\ pc' = "git"
    /\ UNCHANGED <<run, exc, files, cache, df_columns, pending, row, ahora,
                   features, descartados, locals>>

\* git_commit_push() with check=True on the commit as well.
git_commit_push_checked(add_ok, commit_ok, push_ok) ==
    IF add_ok /\ commit_ok /\ push_ok THEN "pushed" ELSE "raised"

\* git_commit_push(): add (check=True), commit (check=False), push
\* (check=True); add_ok, commit_ok and push_ok are the commands' results.
git_commit_push(add_ok, commit_ok, push_ok) ==
    IF ~add_ok THEN "raised" ELSE IF ~push_ok THEN "raised" ELSE "pushed"

\* The commands git_commit_push() runs, in order, each with its result:
\* check=True stops at the first failing add or push.
git_commands(add_ok, commit_ok, push_ok) ==
    IF ~add_ok THEN <<[cmd |-> "add", ok |-> FALSE]>>
    ELSE <<[cmd |-> "add", ok |-> TRUE],
           [cmd |-> "commit", ok |-> commit_ok],
           [cmd |-> "push", ok |-> push_ok]>>

main_git ==
    /\ pc = "git"
    /\ \E add_ok \in BOOLEAN, commit_ok \in BOOLEAN, push_ok \in BOOLEAN :
         /\ git_cmds' = git_commands(add_ok, commit_ok, push_ok)
         /\ no_request
         /\ log_last' = NoLog
         /\ UNCHANGED files
         /\ IF git_commit_push(add_ok, commit_ok, push_ok) = "raised"
            THEN exit_crashed("CalledProcessError")
            ELSE /\ pc' = "log_publicado"
                 /\ UNCHANGED <<run, exc, cache, df_columns, pending, row,
                                ahora, features, descartados, locals>>

\* log("Publicado en GitHub (push OK)")
main_log_publicado ==
    /\ pc = "log_publicado"
    /\ log_last' = [msg |-> "Publicado en GitHub (push OK)"]
    /\ no_request
    /\ no_git
    /\ pc' = "done"
    /\ UNCHANGED <<run, exc, files, cache, df_columns, pending, row, ahora,
                   features, descartados, locals>>

\* The script is started again: a new process, the files as they are.
next_run ==
    /\ pc \in {"done", "crashed"}
    /\ run < MaxRuns
    /\ run' = run + 1
    /\ exc' = ""
    /\ pc' = "load_cache"
    /\ cache' = EmptyDict
    /\ df_columns' = {}
    /\ pending' = 0
    /\ row' = NoRow
    /\ ahora' \in Ahoras
    /\ features' = <<>>
    /\ descartados' = 0
    /\ viaje_id' = NoText
    /\ fecha_iso' = NoText
    /\ hora_salida' = NoText
    /\ hora_llegada' = NoText
    /\ stops_txt' = <<>>
    /\ stops_geo' = <<>>
    /\ quiet
    /\ UNCHANGED files

Next ==
    \/ main_load_cache
    \/ main_read_csv
    \/ main_for
    \/ main_body
    \/ main_geocode
    \/ main_build_feature
    \/ main_write_geojson
    \/ main_save_cache
    \/ save_cache_interrupted
    \/ main_log_generado
    \/ main_git
    \/ main_log_publicado
    \/ next_run

Spec == Init /\ [][Next]_vars

(***************************************************************************)
(* One iteration of the loop on its own: the first row of a run, drawn     *)
(* from every combination of the fields the checks read.                   *)
(***************************************************************************)
\* Feeds without one of the columns, besides the complete one.
BodyFrames == {COLUMNS,
               COLUMNS \ {VIAJE_ID_COL},
               COLUMNS \ {DESTINO_COL},
               COLUMNS \ {FECHA_COL},
               COLUMNS \ {PARADA1_COL},
               COLUMNS \ {SALIDA_COL, LLEGADA_COL}}

\* main() after load_cache() found no file, read_csv() delivered one row
\* and iterrows() has yielded it.
InitBody ==
    /\ pc = "body"
    /\ run = 1
    /\ cache_file = Absent
    /\ out_geojson = Absent
    /\ cache = EmptyDict
    /\ df_columns \in BodyFrames
    /\ pending = 0
    /\ \E r \in BodyRows \cup StopRows : row = [c \in df_columns |-> r[c]]
    /\ ahora \in Ahoras
    /\ features = <<>>
    /\ descartados = 0
    /\ viaje_id = NoText
    /\ fecha_iso = NoText
    /\ hora_salida = NoText
    /\ hora_llegada = NoText
    /\ stops_txt = <<>>
    /\ stops_geo = <<>>
    /\ nominatim_q = NoText
    /\ nominatim_resp = ""
    /\ slept = FALSE
    /\ osrm_coords = <<>>
    /\ osrm_resp = ""
    /\ log_last = NoLog
    /\ git_cmds = <<>>
    /\ exc = ""

NextBody ==
    \/ main_body
    \/ main_geocode
    \/ main_build_feature
    \/ main_for

SpecBody == InitBody /\ [][NextBody]_vars

(***************************************************************************)
(* geocode() on its own: one call, for any place text and any cache that   *)
(* earlier calls have left.                                                *)
(***************************************************************************)
\* Place texts of the call: blank ones, and ones with white space around
\* and inside.
GeocodePlaces == {<<>>, <<" ">>, <<"\t", " ">>, <<" ", "A">>, <<"B", " ">>,
                  <<"b", " ", " ", "C">>}

\* The keys earlier calls may have cached.
GeocodeKeys == {<<"a">>, <<"b">>, <<"b", " ", "c">>}

\* The caches of the call: each of the keys absent, unresolvable or resolved.
GeocodeCaches ==
    UNION { [ks -> {"None", "point"}] : ks \in SUBSET GeocodeKeys }

\* The state at the call g = geocode(s, cache): s is the only entry of
\* stops_txt, and g is left as the only entry of stops_geo.
InitGeocode ==
    /\ pc = "call_geocode"
    /\ run = 1
    /\ cache_file = Absent
    /\ out_geojson = Absent
    /\ \E f \in GeocodeCaches :
         cache = [k \in DOMAIN f |->
                    IF f[k] = "None" THEN None ELSE nominatim_item(k)]
    /\ df_columns = {}
    /\ pending = 0
    /\ row = NoRow
    /\ ahora \in Ahoras
    /\ features = <<>>
    /\ descartados = 0
    /\ viaje_id = NoText
    /\ fecha_iso = NoText
    /\ hora_salida = NoText
    /\ hora_llegada = NoText
    /\ \E place \in GeocodePlaces : stops_txt = <<place>>
    /\ stops_geo = <<>>
    /\ nominatim_q = NoText
    /\ nominatim_resp = ""
    /\ slept = FALSE
    /\ osrm_coords = <<>>
    /\ osrm_resp = ""
    /\ log_last = NoLog
    /\ git_cmds = <<>>
    /\ exc = ""

\* g = geocode(s, cache)
call_geocode ==
    /\ pc = "call_geocode"
    /\ \E resp \in NominatimOutcomes :
         LET s == stops_txt[1]
             g == geocode(s, cache, resp)
         IN  /\ nominatim_q' = IF g.requested THEN s ELSE NoText
             /\ nominatim_resp' = IF g.requested THEN resp ELSE ""
             /\ slept' = g.slept
             /\ cache' = g.cache
             /\ stops_geo' = IF g.raised THEN <<>> ELSE <<g.ret>>
             /\ pc' = IF g.raised THEN "crashed" ELSE "geocode_returned"
             /\ exc' = IF g.raised THEN geocode_exception(resp) ELSE ""
    /\ osrm_coords' = <<>>
    /\ osrm_resp' = ""
    /\ log_last' = NoLog
    /\ no_git
    /\ UNCHANGED <<run, files, df_columns, pending, row, ahora, features,
                   descartados, viaje_id, fecha_iso, hora_salida,
                   hora_llegada, stops_txt>>

NextGeocode == call_geocode

SpecGeocode == InitGeocode /\ [][NextGeocode]_vars

(***************************************************************************)
(* Properties                                                              *)
(***************************************************************************)
\* The key of the stop that main_geocode is about to resolve.
next_key == normalize_place(stops_txt[Len(stops_geo) + 1])

\* C1: once a normalized key is in the cache (in memory, or in the cache
\* file a completed run saved), no request goes to the geocoding provider
\* for a place text with that key, and geocode returns the cached value:
\* the marker None ends the trip, a point is appended to stops_geo.
CacheHitNeverRequests ==
    [][ /\ nominatim_q' # NoText =>
             /\ normalize_place(nominatim_q') \notin DOMAIN cache
             /\ cache_file.kind = "json" =>
                   normalize_place(nominatim_q') \notin
                       {m[1] : m \in cache_file.members}
        /\ (pc = "geocode" /\ next_key \in DOMAIN cache) =>
             /\ nominatim_q' = NoText
             /\ IF cache[next_key] = None
                THEN pc' = "for" /\ descartados' = descartados + 1
                ELSE stops_geo' = Append(stops_geo, cache[next_key])
      ]_vars

\* A second run resolves every stop of a trip from the cache the first run
\* saved, unresolvable markers and points alike being loaded.
CacheHitWitness ==
    /\ run = 2
    /\ pc = "build_feature"
    /\ cache_file.kind = "json"
    /\ cache = json_loads(cache_file)
    /\ Len(stops_geo) = 4

\* C2: a network or HTTP error of the geocoding provider rejects the trip
\* that owns the stop, once, emits no feature for it, and the run goes on
\* with the next row.
GeocodeErrorRejectsOnlyTheTrip ==
    [][ nominatim_resp' \in {"network_error", "http_error"} =>
             /\ pc' = "for"
             /\ descartados' = descartados + 1
             /\ features' = features
      ]_vars

\* C3: a validated trip has 2 to 4 stops; when one of them resolves to None
\* (empty answer of the provider, or the cached marker) the trip ends with
\* no feature, no routing request and one more in descartados; a routing
\* request is only sent with every stop resolved.
StopNoneRejectsTrip ==
    [][ /\ pc = "geocode" => Len(stops_txt) \in 2..4
        /\ ( /\ pc = "geocode"
             /\ \/ next_key \in DOMAIN cache /\ cache[next_key] = None
                \/ nominatim_resp' = "empty" ) =>
             /\ features' = features
             /\ descartados' = descartados + 1
             /\ osrm_coords' = <<>>
             /\ pc' = "for"
             /\ row' = NoRow
        /\ osrm_coords' # <<>> =>
             /\ Len(stops_geo) = Len(stops_txt)
             /\ \A i \in 1..Len(stops_geo) : stops_geo[i] # None
      ]_vars

\* The fourth stop of a four-stop trip got no answer: the trip is rejected.
StopNoneWitness ==
    /\ log_last.msg = "Descartado (no geocodifica stop)"
    /\ Len(log_last.stops) = 4
    /\ normalize_place(log_last.stop) = normalize_place(log_last.stops[4])
    /\ DOMAIN cache # {}
    /\ cache[normalize_place(log_last.stop)] = None
    /\ features = <<>>
    /\ descartados = 1

\* The cell is missing, empty, white space or "nan" in any case.
blank_cell(r, col) ==
    \/ col \notin DOMAIN r
    \/ r[col] = NaN
    \/ strip(r[col]) = <<>>
    \/ lower(strip(r[col])) = <<"n", "a", "n">>

\* The row's date cell is a well-formed dd/mm/yyyy date.
fecha_ok(r) ==
    /\ FECHA_COL \in DOMAIN r
    /\ r[FECHA_COL] # NaN
    /\ parse_fecha(r[FECHA_COL]) # Raised

\* The date of a row whose date cell is well formed.
fecha_of(r) == strptime_iso(parse_fecha(r[FECHA_COL]))

\* The row's departure cell is in one of the accepted formats.
salida_ok(r) ==
    /\ SALIDA_COL \in DOMAIN r
    /\ r[SALIDA_COL] # NaN
    /\ is_HM(strip(r[SALIDA_COL])) \/ is_HMS(strip(r[SALIDA_COL]))

\* The departure time of such a row, to the second.
salida_of(r) ==
    LET p == split_on(strip(r[SALIDA_COL]), ":") IN
    time_of(to_int(p[1]), to_int(p[2]), IF Len(p) = 3 THEN to_int(p[3]) ELSE 0)

\* The step rejects the row with the given log line.
rejected_as(msg) ==
    /\ log_last'.msg = msg
    /\ descartados' = descartados + 1
    /\ features' = features
    /\ pc' = "for"

\* C4: a row with a blank destination, origin or trip id is rejected and
\* counted, with no request to the geocoding or the routing provider and
\* the cache as it was.
BlankRowRejectedWithoutCalls ==
    [][ ( /\ pc = "body"
          /\ \/ blank_cell(row, DESTINO_COL)
             \/ blank_cell(row, ORIGEN_COL)
             \/ blank_cell(row, VIAJE_ID_COL) ) =>
             /\ pc' = "for"
             /\ descartados' = descartados + 1
             /\ features' = features
             /\ nominatim_q' = NoText
             /\ osrm_coords' = <<>>
             /\ cache' = cache
      ]_vars

\* C5: the first failing check, in the order destination, origin, trip id,
\* past date, today's departure already gone, decides the rejection,
\* whatever the fields hold that only later checks read.
FirstFailingCheckDecides ==
    [][ pc = "body" =>
          LET bd == blank_cell(row, DESTINO_COL)
              bo == blank_cell(row, ORIGEN_COL)
              bi == blank_cell(row, VIAJE_ID_COL)
          IN  /\ bd => rejected_as("Descartado (sin destino)")
              /\ (~bd /\ bo) => rejected_as("Descartado (sin origen)")
              /\ (~bd /\ ~bo /\ bi) => rejected_as("Descartado (sin viaje_id)")
              /\ ( /\ ~bd /\ ~bo /\ ~bi /\ fecha_ok(row)
                   /\ lt_date(fecha_of(row), ahora.date) ) =>
                    rejected_as("Descartado (caducado)")
              /\ ( /\ ~bd /\ ~bo /\ ~bi /\ fecha_ok(row)
                   /\ fecha_of(row) = ahora.date
                   /\ salida_ok(row)
                   /\ salida_of(row) < ahora.time ) =>
                    rejected_as("Descartado (caducado)")
      ]_vars

\* C6: a row of today with a departure in an accepted format is rejected as
\* expired when the departure is before the clock's reading and passes the
\* validity check when it is after it, to the second.
TodayDepartureComparedWithNow ==
    [][ ( /\ pc = "body"
          /\ ~blank_cell(row, DESTINO_COL)
          /\ ~blank_cell(row, ORIGEN_COL)
          /\ ~blank_cell(row, VIAJE_ID_COL)
          /\ fecha_ok(row)
          /\ fecha_of(row) = ahora.date
          /\ salida_ok(row) ) =>
             /\ salida_of(row) < ahora.time =>
                   rejected_as("Descartado (caducado)")
             /\ salida_of(row) > ahora.time => pc' = "geocode"
      ]_vars

\* C7: a row with a well-formed date before today is rejected: counted, no
\* feature, no geocoding request, whatever its time cells hold.
PastDateRejected ==
    [][ ( /\ pc = "body"
          /\ fecha_ok(row)
          /\ lt_date(fecha_of(row), ahora.date) ) =>
             /\ descartados' = descartados + 1
             /\ features' = features
             /\ nominatim_q' = NoText
             /\ osrm_coords' = <<>>
             /\ pc' = "for"
      ]_vars

\* A row of yesterday with an empty departure cell was rejected as expired.
PastDateWitness ==
    /\ log_last.msg = "Descartado (caducado)"
    /\ log_last.fecha = <<"2", "0", "2", "6", "-", "0", "2", "-", "1", "7">>
    /\ log_last.salida = <<"n", "a", "n">>
    /\ descartados = 1
    /\ features = <<>>

\* C8: with every stop geocoded, a routing request that fails (network or
\* HTTP error, unreadable or malformed answer, no route) does not reject the
\* trip: one feature is appended, whose geometry is the LineString of the
\* stops' [lon, lat] pairs in stop order.
RoutingFailureFallsBack ==
    [][ ( /\ pc = "build_feature"
          /\ osrm_resp' \in OsrmOutcomes \ {"route"} ) =>
             /\ Len(features') = Len(features) + 1
             /\ SubSeq(features', 1, Len(features)) = features
             /\ features'[Len(features')].geometry.type = "LineString"
             /\ features'[Len(features')].geometry.coordinates =
                   [i \in 1..Len(stops_geo) |->
                       <<stops_geo[i].lon, stops_geo[i].lat>>]
             /\ descartados' = descartados
             /\ pc' = "for"
      ]_vars

\* The routing request of a four-stop trip met a network error and the
\* feature has the four stops as its line.
RoutingFailureWitness ==
    /\ osrm_resp = "network_error"
    /\ features # <<>>
    /\ Len(features[Len(features)].geometry.coordinates) = 4
    /\ features[Len(features)].geometry.coordinates[1] = <<11, 2>>
    /\ features[Len(features)].geometry.coordinates[4] = <<11, 1>>
    /\ descartados = 0

\* C9: save_cache is atomic: whenever the process ends inside it, the cache
\* file is the complete previous document or the complete new one.
SaveCacheAtomic ==
    [][ pc = "save_cache" => cache_file' \in {cache_file, json_dumps(cache)}
      ]_vars

\* C10: every request to the geocoding provider is followed by the
\* rate-limit sleep before geocode is left, whatever the request came to.
SleepAfterEveryRequest == nominatim_q # NoText => slept

\* C11: when the cache file exists and is not a complete JSON document, the
\* run ends in load_cache(): the feed is not read, no request goes to the
\* geocoding or the routing provider, the output file and the cache file are
\* not written, and the ended process does nothing more; when there is no
\* cache file the run goes on to read the feed with an empty cache.
CorruptCacheAbortsAtStart ==
    [][ /\ (pc = "load_cache" /\ cache_file.kind \notin {"absent", "json"}) =>
             /\ pc' = "crashed"
             /\ exc' = "JSONDecodeError"
             /\ files' = files
             /\ nominatim_q' = NoText
             /\ osrm_coords' = <<>>
             /\ git_cmds' = <<>>
        /\ (pc = "load_cache" /\ cache_file.kind = "absent") =>
             /\ pc' = "read_csv"
             /\ cache' = EmptyDict
        /\ pc = "crashed" =>
             /\ pc' = "load_cache"
             /\ run' = run + 1
             /\ files' = files
      ]_vars

\* A run found the cache file cut short by the run before it and ended in
\* load_cache().
CorruptCacheWitness ==
    /\ pc = "crashed"
    /\ exc = "JSONDecodeError"
    /\ nominatim_q = NoText
    /\ run = 2
    /\ cache_file = Truncated
    /\ out_geojson.kind = "json"

\* C12: while the run loads the cache, reads the feed and processes the
\* rows, no step writes the output file or the cache file, so a crash in
\* these stages leaves both as they were when the run started; the cache
\* file is written in one place only, save_cache(cache) after the last row.
CrashBeforePublishKeepsFiles ==
    [][ /\ pc \in {"load_cache", "read_csv", "for", "body", "geocode",
                   "build_feature"} => files' = files
        /\ cache_file' # cache_file =>
             /\ pc = "save_cache"
             /\ pending = 0
             /\ row = NoRow
             /\ pc' \in {"log_generado", "crashed"}
      ]_vars

\* The second run died on a row with a malformed date; the feature file and
\* the cache file are the ones the first run wrote.
CrashBeforePublishWitness ==
    /\ run = 2
    /\ pc = "crashed"
    /\ exc = "ValueError"
    /\ out_geojson.kind = "json"
    /\ out_geojson.features # <<>>
    /\ cache_file.kind = "json"
    /\ cache_file.members # {}

\* The git command c was run by the step, and it failed.
git_failed(cmds, c) == \E i \in 1..Len(cmds) : cmds[i].cmd = c /\ ~cmds[i].ok

\* The git command c was run by the step.
git_attempted(cmds, c) == \E i \in 1..Len(cmds) : cmds[i].cmd = c

\* C13: in the publish step a failing commit is not an error: the push is
\* still run and, when it succeeds, the run goes on to the success line; a
\* failing add or push ends the run with an error, the output file and the
\* cache file staying as written, and the line "Publicado en GitHub (push
\* OK)" is only logged after an add and a push that succeeded.
PublishFailurePolicy ==
    [][ /\ pc = "git" =>
             /\ git_attempted(git_cmds', "add")
             /\ git_failed(git_cmds', "commit") =>
                   git_attempted(git_cmds', "push")
             /\ ( /\ ~git_failed(git_cmds', "add")
                  /\ ~git_failed(git_cmds', "push") ) =>
                   /\ pc' = "log_publicado"
                   /\ exc' = ""
             /\ ( \/ git_failed(git_cmds', "add")
                  \/ git_failed(git_cmds', "push") ) =>
                   /\ pc' = "crashed"
                   /\ exc' = "CalledProcessError"
             /\ files' = files
             /\ log_last' = NoLog
        /\ log_last'.msg = "Publicado en GitHub (push OK)" =>
             /\ pc = "log_publicado"
             /\ git_attempted(git_cmds, "push")
             /\ ~git_failed(git_cmds, "add")
             /\ ~git_failed(git_cmds, "push")
             /\ files' = files
      ]_vars

\* The commit failed, the push was run all the same and failed too: the run
\* ended with an error and both files are on disk as written.
PublishFailureWitness ==
    /\ pc = "crashed"
    /\ exc = "CalledProcessError"
    /\ git_failed(git_cmds, "commit")
    /\ git_failed(git_cmds, "push")
    /\ out_geojson = [kind |-> "json", features |-> <<>>]
    /\ cache_file = json_dumps(EmptyDict)

\* C14: once the cache is loaded and the feed is read, nothing a row holds
\* and nothing a provider answers ends the run: every step of the loop
\* (the head, the checks, the geocoding of a stop, the building of the
\* feature) leaves the run alive, on its way to the writing of the feature
\* collection.
RowProcessingNeverAborts ==
    [][ (pc \in {"for", "body", "geocode", "build_feature"}) =>
             /\ pc' # "crashed"
             /\ exc' = ""
      ]_vars

\* A resolved point as geocode() builds it.
is_point(v) ==
    /\ v # None
    /\ DOMAIN v = {"lat", "lon", "display_name"}
    /\ v.lat \in Int
    /\ v.lon \in Int

\* C15: geocode() called with a place text whose normalized key is empty
\* returns None, sends no request and leaves the cache as it is; every key a
\* call of geocode() adds to the cache is a non-empty normalized key
\* (normalize_place(key) = key) whose value is a resolved point or the
\* unresolvable marker None.
GeocodeBlankPlaceNotCached ==
    [][ pc = "call_geocode" =>
             /\ normalize_place(stops_txt[1]) = <<>> =>
                   /\ stops_geo' = <<None>>
                   /\ nominatim_q' = NoText
                   /\ slept' = FALSE
                   /\ cache' = cache
             /\ \A k \in DOMAIN cache' \ DOMAIN cache :
                   /\ k # <<>>
                   /\ normalize_place(k) = k
                   /\ k = normalize_place(stops_txt[1])
                   /\ cache'[k] = None \/ is_point(cache'[k])
      ]_vars

\* geocode() was called with a place text of white space only, with a cache
\* that holds entries: it returned None and the cache is the same.
GeocodeBlankPlaceWitness ==
    /\ pc = "geocode_returned"
    /\ stops_txt = <<<<"\t", " ">>>>
    /\ stops_geo = <<None>>
    /\ nominatim_q = NoText
    /\ Cardinality(DOMAIN cache) = 3

\* The cell holds a text that strptime takes neither as %H:%M nor as
\* %H:%M:%S.
hora_unparseable(r, col) ==
    /\ col \in DOMAIN r
    /\ r[col] # NaN
    /\ ~is_HM(strip(r[col]))
    /\ ~is_HMS(strip(r[col]))

\* C16: a row of today whose departure text is in none of the accepted
\* formats passes the validity check (it is not rejected as expired), and
\* the feature emitted for it carries the departure text, and an arrival
\* text that is in none of the formats, as the row holds them, surrounding
\* white space apart.
UnparseableTimeFailsOpen ==
    [][ /\ ( /\ pc = "body"
             /\ ~blank_cell(row, DESTINO_COL)
             /\ ~blank_cell(row, ORIGEN_COL)
             /\ ~blank_cell(row, VIAJE_ID_COL)
             /\ fecha_ok(row)
             /\ fecha_of(row) = ahora.date
             /\ hora_unparseable(row, SALIDA_COL) ) =>
                /\ pc' = "geocode"
                /\ hora_salida' = strip(row[SALIDA_COL])
                /\ hora_unparseable(row, LLEGADA_COL) =>
                      hora_llegada' = strip(row[LLEGADA_COL])
        /\ ( /\ pc = "build_feature"
             /\ fecha_of(row) = ahora.date
             /\ hora_unparseable(row, SALIDA_COL) ) =>
                /\ Len(features') = Len(features) + 1
                /\ features'[Len(features')].properties.hora_salida =
                      strip(row[SALIDA_COL])
                /\ hora_unparseable(row, LLEGADA_COL) =>
                      features'[Len(features')].properties.hora_llegada =
                         strip(row[LLEGADA_COL])
      ]_vars

\* The row's arrival cell is in one of the accepted formats.
llegada_ok(r) ==
    /\ LLEGADA_COL \in DOMAIN r
    /\ r[LLEGADA_COL] # NaN
    /\ is_HM(strip(r[LLEGADA_COL])) \/ is_HMS(strip(r[LLEGADA_COL]))

\* The arrival time of such a row, to the second.
llegada_of(r) ==
    LET p == split_on(strip(r[LLEGADA_COL]), ":") IN
    time_of(to_int(p[1]), to_int(p[2]), IF Len(p) = 3 THEN to_int(p[3]) ELSE 0)

\* "HH:MM" of a time of day in seconds.
HHMM(t) == fmt02(t \div 3600) \o <<":">> \o fmt02((t % 3600) \div 60)

\* The non-blank intermediate stops of the row, in the order of the columns.
paradas_of(r) ==
    (IF blank_cell(r, PARADA1_COL) THEN <<>> ELSE <<strip(r[PARADA1_COL])>>)
    \o (IF blank_cell(r, PARADA2_COL) THEN <<>> ELSE <<strip(r[PARADA2_COL])>>)

\* C17: for every emitted feature the stop list is the row's origin, its
\* first and its second intermediate stop when they are not blank, and its
\* destination, in this order, and the stops are resolved in this order;
\* origen and destino are the row's origin and destination, paradas the
\* intermediate stops joined by " | ", num_paradas their number (0 to 2),
\* and name is "origin -> destination (departure-arrival)" with the times
\* as HH:MM.
StopsAndPropertiesInOrder ==
    [][ pc = "build_feature" =>
          LET f == features'[Len(features')]
              o == strip(row[ORIGEN_COL])
              d == strip(row[DESTINO_COL])
              mid == paradas_of(row)
          IN  /\ Len(features') = Len(features) + 1
              /\ stops_txt = <<o>> \o mid \o <<d>>
              /\ Len(stops_geo) = Len(stops_txt)
              /\ \A i \in 1..Len(stops_txt) :
                    stops_geo[i] = cache[normalize_place(stops_txt[i])]
              /\ f.properties.origen = o
              /\ f.properties.destino = d
              /\ f.properties.paradas =
                    IF mid = <<>> THEN <<>>
                    ELSE IF Len(mid) = 1 THEN mid[1]
                    ELSE mid[1] \o <<" ", "|", " ">> \o mid[2]
              /\ f.properties.num_paradas = Len(mid)
              /\ Len(mid) \in 0..2
              /\ f.properties.name =
                    o \o ARROW \o d \o <<" ", "(">> \o f.properties.hora_salida
                      \o <<"-">> \o f.properties.hora_llegada \o <<")">>
              /\ salida_ok(row) =>
                    f.properties.hora_salida = HHMM(salida_of(row))
              /\ llegada_ok(row) =>
                    f.properties.hora_llegada = HHMM(llegada_of(row))
      ]_vars

\* The feature of a trip with two intermediate stops.
StopsAndPropertiesWitness ==
    /\ Len(features) = 1
    /\ features[1].properties.num_paradas = 2
    /\ features[1].properties.paradas =
          <<"b", " ", "c", " ", "|", " ", "C">>
    /\ features[1].properties.origen = <<"B">>
    /\ features[1].properties.destino = <<"A">>
    /\ features[1].properties.name =
          <<"B", " ", "->", " ", "A", " ", "(", "0", "9", ":", "0", "5", "-",
            "1", "2", ":", "0", "0", ")">>

\* The rows of the feed accounted for: those that gave a feature, those
\* rejected, the one being processed, and those iterrows() has still to yield.
rows_accounted(p, fs, d, pend) ==
    Len(fs) + d + pend
    + (IF p \in {"body", "geocode", "build_feature"} THEN 1 ELSE 0)

\* C18: len(features) + descartados is the number of rows processed so
\* far: the two start at zero with every row of the feed still to come, a
\* row leaves them alone while it is being processed and, once processed,
\* has either appended one feature at the end of the list or added one to
\* descartados, never both; the second test of the trip id never rejects;
\* the summary line logs the two final values, after the feature list was
\* written in the order of the rows.
EveryRowCountedOnce ==
    [][ /\ (pc = "read_csv" /\ pc' = "for") =>
             /\ features' = <<>>
             /\ descartados' = 0
        /\ ( /\ pc \in {"for", "body", "geocode", "build_feature"}
             /\ pc' # "crashed" ) =>
             /\ rows_accounted(pc', features', descartados', pending') =
                   rows_accounted(pc, features, descartados, pending)
             /\ pc' \in {"body", "geocode", "build_feature", "write_geojson"}
                   => features' = features /\ descartados' = descartados
             /\ pc' = "write_geojson" => pending = 0
             /\ (pc # "for" /\ pc' = "for") =>
                   /\ pending' = pending
                   /\ \/ /\ Len(features') = Len(features) + 1
                         /\ SubSeq(features', 1, Len(features)) = features
                         /\ descartados' = descartados
                      \/ /\ features' = features
                         /\ descartados' = descartados + 1
        /\ "line" \notin DOMAIN log_last'
        /\ ( /\ pc \in {"write_geojson", "save_cache", "log_generado"}
             /\ pc' # "crashed" ) =>
             /\ features' = features
             /\ descartados' = descartados
        /\ (pc = "write_geojson" /\ pc' # "crashed") =>
             out_geojson'.features = features
        /\ pc = "log_generado" =>
             log_last' = [msg |-> "Generado", features |-> Len(features),
                          descartados |-> descartados]
      ]_vars

\* A feed of two rows, one rejected and one that gave a feature, and the
\* summary line that counts them.
EveryRowCountedWitness ==
    /\ pc = "git"
    /\ log_last = [msg |-> "Generado", features |-> 1, descartados |-> 1]
    /\ Len(features) = 1
    /\ descartados = 1
    /\ out_geojson.features = features

\* C19: a request goes to the routing provider only from the building of
\* the feature of a row that passed every check and whose stops are all
\* resolved; the step that appends a feature sends one, a step that rejects
\* a row sends none; the request has one point per stop, 2 to 4 of them,
\* and so has the LineString used when the provider gives no route.
RoutingRequestOncePerFeature ==
    [][ /\ osrm_coords' # <<>> =>
             /\ pc = "build_feature"
             /\ ~blank_cell(row, DESTINO_COL)
             /\ ~blank_cell(row, ORIGEN_COL)
             /\ ~blank_cell(row, VIAJE_ID_COL)
             /\ fecha_ok(row)
             /\ ~lt_date(fecha_of(row), ahora.date)
             /\ Len(stops_geo) = Len(stops_txt)
             /\ \A i \in 1..Len(stops_geo) : is_point(stops_geo[i])
             /\ Len(osrm_coords') = Len(stops_txt)
             /\ Len(osrm_coords') \in 2..4
             /\ osrm_resp' \in OsrmOutcomes
             /\ Len(features') = Len(features) + 1
             /\ descartados' = descartados
        /\ Len(features') > Len(features) =>
             /\ osrm_coords' # <<>>
             /\ osrm_resp' # "route" =>
                   Len(features'[Len(features')].geometry.coordinates)
                      \in 2..4
        /\ descartados' > descartados =>
             /\ osrm_coords' = <<>>
             /\ osrm_resp' = ""
        /\ pc \notin {"build_feature"} => osrm_coords' = <<>>
      ]_vars

\* After a rejected row, the feature of a two-stop trip was built from the
\* route the provider gave for a request of two points.
RoutingRequestWitness ==
    /\ pc = "for"
    /\ osrm_resp = "route"
    /\ Len(osrm_coords) = 2
    /\ Len(features) = 1
    /\ descartados = 1

\* C20: while a run lasts, a step never removes an entry of the cache nor
\* changes its value, and the geocoding of a stop adds at most the key of
\* that stop; when a stop resolves to None the trip ends there: nothing is
\* asked or cached for the stops after it, the marker of the failing stop
\* and the points of the stops before it are in the cache, and save_cache
\* at the end of the run writes the cache with all its entries.
CacheOnlyGrows ==
    [][ /\ ( /\ pc \notin {"load_cache", "done", "crashed"}
             /\ pc' # "crashed" ) =>
             \A k \in DOMAIN cache :
                k \in DOMAIN cache' /\ cache'[k] = cache[k]
        /\ (pc = "geocode" /\ pc' # "crashed") =>
             DOMAIN cache' \subseteq DOMAIN cache \cup {next_key}
        /\ pc \notin {"geocode", "load_cache"} =>
             DOMAIN cache' \subseteq DOMAIN cache
        /\ (pc = "geocode" /\ pc' = "for") =>
             /\ next_key \in DOMAIN cache'
             /\ cache'[next_key] = None
             /\ nominatim_q' \in {NoText, stops_txt[Len(stops_geo) + 1]}
             /\ \A i \in 1..Len(stops_geo) :
                   /\ normalize_place(stops_txt[i]) \in DOMAIN cache'
                   /\ cache'[normalize_place(stops_txt[i])] = stops_geo[i]
             /\ stops_geo' = <<>>
        /\ (pc = "save_cache" /\ pc' # "crashed") =>
             /\ cache_file'.kind = "json"
             /\ json_loads(cache_file') = cache
      ]_vars

\* A four-stop trip was rejected at its second stop: the point of the
\* first stop and the marker of the second are in the cache and in the
\* cache file written at the end of the run, the key of the last stop is
\* not.
CacheOnlyGrowsWitness ==
    /\ pc = "log_generado"
    /\ descartados = 1
    /\ features = <<>>
    /\ DOMAIN cache = {<<"b">>, <<"b", " ", "c">>}
    /\ cache[<<"b", " ", "c">>] = None
    /\ cache[<<"b">>] # None
    /\ cache_file = json_dumps(cache)
    /\ Cardinality(cache_file.members) = 2

====
